---- MODULE Spec2Model ----
(***************************************************************************)
(* Model of mpl_fold_axis.py: the piecewise axis transform built by        *)
(* create_scale (validation, forward, inverse), its installation by        *)
(* scale_axis, and the entry point fold_axis with the break markers drawn  *)
(* by add_fold_line.  Floats are modelled as exact rationals <<num, den>>. *)
(***************************************************************************)
EXTENDS Integers, Sequences, FiniteSets, TLC

VARIABLES
    interval,   \* the caller's interval list [(a, b, f), ...]
    mode,       \* "linear" or "log"
    scale,      \* what create_scale returned or raised
    x, y, z,    \* an array, forward of it, inverse of that
    entry,      \* the function the caller called: fold_axis or scale_axis
    axis,       \* "x" or "y"
    which,      \* "lower", "upper" or "both"
    style,      \* the caller's lw, d, color, span_color, size
    ax,         \* the Axes: its scales and artists
    pc,         \* where the call stands
    idx,        \* position of fold_axis's loop over interval
    requests,   \* the calls of add_fold_line made so far, in order
    lines,      \* fold_axis's local list `lines`
    rectangles, \* fold_axis's local list `rectangles`
    ret,        \* what the call returned
    err,        \* the error that reached the caller
    fn,         \* the function each concurrent invocation runs
    arg0,       \* the array each invocation was called with
    mem,        \* the arrays in memory: each caller's array, each copy
    cpc,        \* where each invocation stands
    cn,         \* each invocation's loop index n
    cymin       \* the running offsets ymin

scaleVars == <<scale, x, y, z>>
foldVars == <<entry, axis, which, style, ax, pc, idx, requests, lines,
              rectangles, ret, err>>
concVars == <<fn, arg0, mem, cpc, cn, cymin>>
vars == <<interval, mode, scaleVars, foldVars, concVars>>

(***************************************************************************)
(* Bounds of the model.                                                    *)
(***************************************************************************)
\* interval bounds are the integers 0..MaxCoord
MaxCoord == 4
\* an interval list holds at most MaxK triples
MaxK == 2

(***************************************************************************)
(* Exact arithmetic on rationals <<n, d>>, d > 0, in lowest terms.         *)
(***************************************************************************)
Abs(n) == IF n < 0 THEN -n ELSE n

RECURSIVE GCD(_, _)
GCD(a, b) == IF b = 0 THEN a ELSE GCD(b, a % b)

Rat(n, d) ==
    LET s == IF d < 0 THEN -1 ELSE 1
        g == GCD(Abs(n), Abs(d))
    IN  <<(s * n) \div g, (s * d) \div g>>

RAdd(p, q) == Rat(p[1] * q[2] + q[1] * p[2], p[2] * q[2])
RSub(p, q) == Rat(p[1] * q[2] - q[1] * p[2], p[2] * q[2])
RMul(p, q) == Rat(p[1] * q[1], p[2] * q[2])
RDiv(p, q) == Rat(p[1] * q[2], p[2] * q[1])
RLt(p, q) == p[1] * q[2] < q[1] * p[2]
RLe(p, q) == p[1] * q[2] <= q[1] * p[2]

Zero == Rat(0, 1)
One == Rat(1, 1)
\* float("-inf"): below every finite value under RLt
NegInf == <<-1, 0>>

(***************************************************************************)
(* Inputs.                                                                 *)
(***************************************************************************)
Coords == {Rat(n, 1) : n \in 0..MaxCoord}
Factors == {Rat(-1, 1), Rat(0, 1), Rat(1, 2), Rat(2, 1)}
Triples == Coords \X Coords \X Factors
IntervalLists == UNION {[1..k -> Triples] : k \in 0..MaxK}
Modes == {"linear", "log"}
\* data coordinates: every half step from one below the least bound to one
\* above the greatest
Xs == {Rat(n, 2) : n \in (-2)..(2 * MaxCoord + 2)}
\* numpy arrays of two elements
Arrays == Xs \X Xs

NoScale == [status |-> "none", kind |-> "none", x0 |-> <<>>, factor |-> <<>>]
NotCalled == [exc |-> "notcalled", val |-> <<>>]
IndexError == [exc |-> "IndexError", val |-> <<>>]
Returned(v) == [exc |-> "none", val |-> v]

(***************************************************************************)
(* create_scale: validation and construction of the tables x0 and factor.  *)
(***************************************************************************)
FactorRejectedNegativeOnly(f) == RLt(f, Zero)

\* `if f <= 0`
FactorRejected(f) == RLe(f, Zero)

\* `if not ((a < b) and (_prev_b < a))`
BoundsRejected(a, b, prev_b) == ~(RLt(a, b) /\ RLt(prev_b, a))

ScaleKind(m) == IF m = "linear" THEN "FuncScale" ELSE "FuncScaleLog"

\* the loop `for a, b, f in interval`, from triple i on; _prev_b is passed on
\* as it is, the loop body never assigns it
RECURSIVE CreateScaleLoop(_, _, _, _, _, _)
CreateScaleLoop(iv, m, i, prev_b, x0, factor) ==
    IF i > Len(iv)
    THEN [status |-> "ok", kind |-> ScaleKind(m), x0 |-> x0, factor |-> factor]
    ELSE LET a == iv[i][1]
             b == iv[i][2]
             f == iv[i][3]
         IN  IF BoundsRejected(a, b, prev_b)
             THEN [status |-> "unsorted", kind |-> "none",
                   x0 |-> <<>>, factor |-> <<>>]
             ELSE IF FactorRejected(f)
             THEN [status |-> "factor", kind |-> "none",
                   x0 |-> <<>>, factor |-> <<>>]
             ELSE CreateScaleLoop(iv, m, i + 1, prev_b,
                                  x0 \o <<a, b>>, factor \o <<f, One>>)

create_scale(iv, m) == CreateScaleLoop(iv, m, 1, NegInf, <<>>, <<>>)

(***************************************************************************)
(* _forward.  Python index n is position n + 1 of the sequences.           *)
(***************************************************************************)
FwdYminNoFactor(x0, factor, n, ymin) ==
    RAdd(ymin, RSub(x0[n + 2], x0[n + 1]))

\* `ymin += (xmax - xmin) * factor[n]`
FwdYmin(x0, factor, n, ymin) ==
    RAdd(ymin, RMul(RSub(x0[n + 2], x0[n + 1]), factor[n + 1]))

FwdAssignNoOffset(x0, factor, n, ymin, xs, res) ==
    [i \in DOMAIN xs |->
        IF RLt(x0[n + 1], xs[i]) /\ RLe(xs[i], x0[n + 2])
        THEN RMul(RSub(xs[i], x0[n + 1]), factor[n + 1])
        ELSE res[i]]

\* `cond = (x > xmin) & (x <= xmax)`
\* `res[cond] = (x[cond] - xmin) * factor[n] + ymin`
FwdAssign(x0, factor, n, ymin, xs, res) ==
    [i \in DOMAIN xs |->
        IF RLt(x0[n + 1], xs[i]) /\ RLe(xs[i], x0[n + 2])
        THEN RAdd(RMul(RSub(xs[i], x0[n + 1]), factor[n + 1]), ymin)
        ELSE res[i]]

\* `res[x > xmax] = (x[x > xmax] - xmax) * factor[-1] + ymin`, xmax = x0[N-1]
FwdTail(x0, factor, ymin, xs, res) ==
    LET N == Len(x0)
    IN  [i \in DOMAIN xs |->
            IF RLt(x0[N], xs[i])
            THEN RAdd(RMul(RSub(xs[i], x0[N]), factor[N]), ymin)
            ELSE res[i]]

\* iterations n, n+1, ..., N-2 of the loop, then the tail
RECURSIVE FwdLoop(_, _, _, _, _, _)
FwdLoop(x0, factor, n, ymin, xs, res) ==
    IF n >= Len(x0) - 1
    THEN FwdTail(x0, factor, ymin, xs, res)
    ELSE FwdLoop(x0, factor, n + 1, FwdYmin(x0, factor, n, ymin), xs,
                 FwdAssign(x0, factor, n, ymin, xs, res))

\* `ymin = x0[0]` raises IndexError on an empty table
forward(sc, xs) ==
    IF Len(sc.x0) = 0
    THEN IndexError
    ELSE Returned(FwdLoop(sc.x0, sc.factor, 0, sc.x0[1], xs, xs))

(***************************************************************************)
(* _inverse.                                                               *)
(***************************************************************************)
\* `ymax = ymin + (xmax - xmin) * factor[n]`
InvYmax(x0, factor, n, ymin) ==
    RAdd(ymin, RMul(RSub(x0[n + 2], x0[n + 1]), factor[n + 1]))

InvAssignTimesFactor(x0, factor, n, ymin, ys, res) ==
    LET ymax == InvYmax(x0, factor, n, ymin)
    IN  [i \in DOMAIN ys |->
            IF RLt(ymin, ys[i]) /\ RLe(ys[i], ymax)
            THEN RAdd(RMul(RSub(ys[i], ymin), factor[n + 1]), x0[n + 1])
            ELSE res[i]]

\* `cond = (y > ymin) & (y <= ymax)`
\* `res[cond] = (y[cond] - ymin) / factor[n] + xmin`
InvAssign(x0, factor, n, ymin, ys, res) ==
    LET ymax == InvYmax(x0, factor, n, ymin)
    IN  [i \in DOMAIN ys |->
            IF RLt(ymin, ys[i]) /\ RLe(ys[i], ymax)
            THEN RAdd(RDiv(RSub(ys[i], ymin), factor[n + 1]), x0[n + 1])
            ELSE res[i]]

\* `res[y > ymax] = (y[y > ymax] - ymax) / factor[-1] + xmax`
InvTail(x0, factor, ymax, ys, res) ==
    LET N == Len(x0)
    IN  [i \in DOMAIN ys |->
            IF RLt(ymax, ys[i])
            THEN RAdd(RDiv(RSub(ys[i], ymax), factor[N]), x0[N])
            ELSE res[i]]

RECURSIVE InvLoop(_, _, _, _, _, _)
InvLoop(x0, factor, n, ymin, ys, res) ==
    IF n >= Len(x0) - 1
    THEN InvTail(x0, factor, ymin, ys, res)
    ELSE InvLoop(x0, factor, n + 1, InvYmax(x0, factor, n, ymin), ys,
                 InvAssign(x0, factor, n, ymin, ys, res))

inverse(sc, ys) ==
    IF Len(sc.x0) = 0
    THEN IndexError
    ELSE Returned(InvLoop(sc.x0, sc.factor, 0, sc.x0[1], ys, ys))

(***************************************************************************)
(* Vocabulary of the claims: validity of an interval list as the           *)
(* specification defines it, and the reference piecewise function.         *)
(***************************************************************************)
BoundsValid(iv) ==
    \A i \in 1..Len(iv) :
        /\ RLt(iv[i][1], iv[i][2])
        /\ (i > 1 => RLt(iv[i - 1][2], iv[i][1]))

FactorsPositive(iv) == \A i \in 1..Len(iv) : RLt(Zero, iv[i][3])

ValidList(iv) == BoundsValid(iv) /\ FactorsPositive(iv)

\* boundary n and slope n (n = 0..2k-1) of the table of a list of k intervals
RefBoundary(iv, n) == iv[(n \div 2) + 1][(n % 2) + 1]
RefSlope(iv, n) == IF n % 2 = 0 THEN iv[(n \div 2) + 1][3] ELSE One

RECURSIVE RefYmin(_, _)
RefYmin(iv, n) ==
    IF n = 0
    THEN RefBoundary(iv, 0)
    ELSE RAdd(RefYmin(iv, n - 1),
              RMul(RSub(RefBoundary(iv, n), RefBoundary(iv, n - 1)),
                   RefSlope(iv, n - 1)))

RefForward(iv, v) ==
    LET last == 2 * Len(iv) - 1
        Inside(n) == RLt(RefBoundary(iv, n), v) /\ RLe(v, RefBoundary(iv, n + 1))
    IN  IF RLe(v, RefBoundary(iv, 0))
        THEN v
        ELSE IF \E n \in 0..(last - 1) : Inside(n)
        THEN LET n == CHOOSE m \in 0..(last - 1) : Inside(m)
             IN  RAdd(RMul(RSub(v, RefBoundary(iv, n)), RefSlope(iv, n)),
                      RefYmin(iv, n))
        ELSE RAdd(RSub(v, RefBoundary(iv, last)), RefYmin(iv, last))

LastHigh(iv) == iv[Len(iv)][2]

(***************************************************************************)
(* The Axes and the artists add_fold_line draws on it.                     *)
(***************************************************************************)
LinearScale ==
    [status |-> "ok", kind |-> "LinearScale", x0 |-> <<>>, factor |-> <<>>]

FreshAxes ==
    [xscale |-> LinearScale, yscale |-> LinearScale, set_calls |-> <<>>,
     lines |-> <<>>, patches |-> <<>>]

\* defaults of lw, d, color, span_color, size (the same in add_fold_line and
\* in fold_axis)
DefaultStyle ==
    [lw |-> 1, d |-> 1, color |-> "k", span_color |-> "w", size |-> 10]
CustomStyle ==
    [lw |-> 3, d |-> 2, color |-> "r", span_color |-> "y", size |-> 6]
Styles == {DefaultStyle, CustomStyle}
AxisNames == {"x", "y"}
Spines == {"lower", "upper", "both"}

\* ax.plot(*position_func(pos), transform=trans, **line_kwargs)
FoldLine(req, pos) ==
    [axis |-> req.axis, lim |-> req.lim, pos |-> pos,
     d |-> req.style.d, size |-> req.style.size, mew |-> req.style.lw,
     color |-> req.style.color]

\* _plot_fold_lines
PlotFoldLines(req) ==
    (IF req.which \in {"lower", "both"} THEN <<FoldLine(req, 0)>> ELSE <<>>)
    \o
    (IF req.which \in {"upper", "both"} THEN <<FoldLine(req, 1)>> ELSE <<>>)

\* axspan_func(low, up, min, max, color=..., zorder=...)
AxSpan(req, min, max, color, zorder) ==
    [axis |-> req.axis, lim |-> req.lim, span |-> <<min, max>>,
     color |-> color, zorder |-> zorder]

\* _plot_axspan
PlotAxSpan(req) ==
    IF req.which = "both"
    THEN <<AxSpan(req, Rat(-1, 100), Rat(101, 100),
                  req.style.span_color, Rat(26, 10))>>
    ELSE LET min == IF req.which = "lower" THEN Rat(-1, 100) ELSE Rat(99, 100)
             max == IF req.which = "lower" THEN Rat(1, 100) ELSE Rat(101, 100)
         IN  <<AxSpan(req, Zero, One, "w", Rat(24, 10)),
               AxSpan(req, min, max, req.style.span_color, Rat(26, 10))>>

\* add_fold_line returns (lines, rectangles), all of them added to ax
add_fold_line(req) ==
    [lines |-> PlotFoldLines(req), rectangles |-> PlotAxSpan(req)]

(***************************************************************************)
(* Concurrent invocations: their names and arrays; the values of the       *)
(* variables a specification does not use.                                 *)
(***************************************************************************)
Procs == {"p1", "p2"}
Functions == {"forward", "inverse"}
\* arrays of one element
ConcArrays == {<<v>> : v \in Xs}

\* the array the caller passed to invocation p
ArgId(p) == <<"arg", p>>

\* `res = x.copy()`: the result array is a new array of the invocation
ResId(p) == <<"res", p>>

YminSlotShared(p) == "p1"

\* `ymin` is a local variable of each call of _forward and of _inverse
YminSlot(p) == p

ArrayIds == {ArgId(p) : p \in Procs} \cup {<<"res", p>> : p \in Procs}

None == [kind |-> "None", lines |-> <<>>, rectangles |-> <<>>]
Pending == [kind |-> "pending", lines |-> <<>>, rectangles |-> <<>>]

ConcIdle ==
    /\ fn = [p \in Procs |-> "forward"]
    /\ arg0 = [p \in Procs |-> <<>>]
    /\ mem = [a \in ArrayIds |-> <<>>]
    /\ cpc = [p \in Procs |-> "idle"]
    /\ cn = [p \in Procs |-> 0]
    /\ cymin = [p \in Procs |-> Zero]

FoldIdle ==
    /\ entry = "create_scale"
    /\ axis = "x"
    /\ which = "lower"
    /\ style = DefaultStyle
    /\ ax = FreshAxes
    /\ pc = "create_scale"
    /\ idx = 0
    /\ requests = <<>>
    /\ lines = <<>>
    /\ rectangles = <<>>
    /\ ret = Pending
    /\ err = "none"

(***************************************************************************)
(* scale_axis and fold_axis.                                               *)
(***************************************************************************)
SetScaleOnBothAxes(a, ax_sel, sc) ==
    [a EXCEPT !.xscale = sc, !.yscale = sc,
              !.set_calls = @ \o <<"x", "y">>]

\* `if axis == "x": ax.set_xscale(scale)`, `if axis == "y": ax.set_yscale(scale)`
SetScale(a, ax_sel, sc) ==
    IF ax_sel = "x"
    THEN [a EXCEPT !.xscale = sc, !.set_calls = Append(@, "x")]
    ELSE IF ax_sel = "y"
    THEN [a EXCEPT !.yscale = sc, !.set_calls = Append(@, "y")]
    ELSE a

EmptyGuardNever(iv) == FALSE

\* `if not interval`
EmptyGuard(iv) == Len(iv) = 0

\* `add_fold_line(ax, (a, b), axis=axis, which=which)`: lw, d, color,
\* span_color and size are not passed on, add_fold_line takes its defaults
FoldLineRequest(t, ax_sel, wh, st) ==
    [lim |-> <<t[1], t[2]>>, axis |-> ax_sel, which |-> wh,
     style |-> DefaultStyle]

\* the caller calls fold_axis(ax, interval, axis, which, mode, lw, d, color,
\* span_color, size) or scale_axis(ax, interval, axis, mode) on a fresh Axes
InitFold ==
    /\ interval \in IntervalLists
    /\ mode \in Modes
    /\ axis \in AxisNames
    /\ \/ entry = "fold_axis" /\ which \in Spines /\ style \in Styles
                              /\ pc = "fold_axis"
       \/ entry = "scale_axis" /\ which = "lower" /\ style = DefaultStyle
                               /\ pc = "scale_axis"
    /\ ax = FreshAxes
    /\ idx = 0
    /\ requests = <<>>
    /\ lines = <<>>
    /\ rectangles = <<>>
    /\ ret = Pending
    /\ err = "none"
    /\ scale = NoScale
    /\ x = <<>>
    /\ y = NotCalled
    /\ z = NotCalled
    /\ ConcIdle

\* fold_axis, lines 329-332
FoldAxisEntry ==
    /\ pc = "fold_axis"
    /\ IF EmptyGuard(interval)
       THEN pc' = "returned" /\ ret' = None
       ELSE pc' = "scale_axis" /\ ret' = ret
    /\ UNCHANGED <<interval, mode, scaleVars, concVars, entry, axis, which, style, ax,
                   idx, requests, lines, rectangles, err>>

\* scale_axis: create_scale raises before the Axes is touched, or the scale
\* is installed
ScaleAxis ==
    /\ pc = "scale_axis"
    /\ LET sc == create_scale(interval, mode)
       IN  IF sc.status # "ok"
           THEN /\ err' = sc.status
                /\ pc' = "raised"
                /\ UNCHANGED <<ax, idx, ret>>
           ELSE /\ ax' = SetScale(ax, axis, sc)
                /\ err' = err
                /\ IF entry = "scale_axis"
                   THEN pc' = "returned" /\ ret' = None /\ idx' = idx
                   ELSE pc' = "loop" /\ ret' = ret /\ idx' = 1
    /\ UNCHANGED <<interval, mode, scaleVars, concVars, entry, axis, which, style,
                   requests, lines, rectangles>>

\* one iteration of `for a, b, _ in interval`
AddFoldLine ==
    /\ pc = "loop"
    /\ idx <= Len(interval)
    /\ LET req == FoldLineRequest(interval[idx], axis, which, style)
           r == add_fold_line(req)
       IN  /\ requests' = Append(requests, req)
           /\ ax' = [ax EXCEPT !.lines = @ \o r.lines,
                               !.patches = @ \o r.rectangles]
           /\ lines' = Append(lines, r.lines)
           /\ rectangles' = Append(rectangles, r.rectangles)
    /\ idx' = idx + 1
    /\ UNCHANGED <<interval, mode, scaleVars, concVars, entry, axis, which, style, pc,
                   ret, err>>

\* `return lines, rectangles`
FoldAxisReturn ==
    /\ pc = "loop"
    /\ idx > Len(interval)
    /\ pc' = "returned"
    /\ ret' = [kind |-> "tuple", lines |-> lines, rectangles |-> rectangles]
    /\ UNCHANGED <<interval, mode, scaleVars, concVars, entry, axis, which, style, ax,
                   idx, requests, lines, rectangles, err>>

NextFold == FoldAxisEntry \/ ScaleAxis \/ AddFoldLine \/ FoldAxisReturn

SpecFold == InitFold /\ [][NextFold]_vars

(***************************************************************************)
(* Specification of the transform: a caller builds a scale from an         *)
(* interval list, then maps arrays forward and back.                       *)
(***************************************************************************)
Init ==
    /\ interval \in IntervalLists
    /\ mode \in Modes
    /\ scale = NoScale
    /\ x = <<>>
    /\ y = NotCalled
    /\ z = NotCalled
    /\ FoldIdle
    /\ ConcIdle

CreateScale ==
    /\ scale.status = "none"
    /\ scale' = create_scale(interval, mode)
    /\ UNCHANGED <<interval, mode, x, y, z, foldVars, concVars>>

\* the host calls forward on an array of data coordinates
CallForward ==
    /\ scale.status = "ok"
    /\ y.exc = "notcalled"
    /\ \E xs \in Arrays :
        /\ x' = xs
        /\ y' = forward(scale, xs)
    /\ UNCHANGED <<interval, mode, scale, z, foldVars, concVars>>

\* inverse(forward(x)): an exception of forward reaches the caller
CallInverse ==
    /\ y.exc # "notcalled"
    /\ z.exc = "notcalled"
    /\ z' = IF y.exc = "none" THEN inverse(scale, y.val) ELSE y
    /\ UNCHANGED <<interval, mode, scale, x, y, foldVars, concVars>>

Next == CreateScale \/ CallForward \/ CallInverse

Spec == Init /\ [][Next]_vars

(***************************************************************************)
(* Concurrent invocations of _forward and _inverse on one transform.  An   *)
(* invocation runs statement by statement; the statements of different     *)
(* invocations interleave.                                                 *)
(***************************************************************************)
\* a transform built from a valid interval list, and two invocations about
\* to run on it
InitConc ==
    /\ interval \in {iv \in IntervalLists : ValidList(iv)}
    /\ mode = "linear"
    /\ scale = create_scale(interval, mode)
    /\ x = <<>>
    /\ y = NotCalled
    /\ z = NotCalled
    /\ FoldIdle
    /\ fn \in [Procs -> Functions]
    /\ arg0 \in [Procs -> ConcArrays]
    /\ mem = [a \in ArrayIds |-> IF a[1] = "arg" THEN arg0[a[2]] ELSE <<>>]
    /\ cpc = [p \in Procs |-> "start"]
    /\ cn = [p \in Procs |-> 0]
    /\ cymin = [p \in Procs |-> Zero]

\* `res = x.copy()`, `ymin = x0[0]`
ConcStart(p) ==
    /\ cpc[p] = "start"
    /\ mem' = [mem EXCEPT ![ResId(p)] = mem[ArgId(p)]]
    /\ IF Len(scale.x0) = 0
       THEN /\ cpc' = [cpc EXCEPT ![p] = "IndexError"]
            /\ UNCHANGED cymin
       ELSE /\ cpc' = [cpc EXCEPT ![p] = "assign"]
            /\ cymin' = [cymin EXCEPT ![YminSlot(p)] = scale.x0[1]]
    /\ UNCHANGED <<interval, mode, scaleVars, foldVars, fn, arg0, cn>>

\* `cond = ...`, `res[cond] = ...` of iteration n
ConcAssign(p) ==
    /\ cpc[p] = "assign"
    /\ LET ymin == cymin[YminSlot(p)]
           xs == mem[ArgId(p)]
           res == mem[ResId(p)]
       IN  mem' = [mem EXCEPT ![ResId(p)] =
                      IF fn[p] = "forward"
                      THEN FwdAssign(scale.x0, scale.factor, cn[p], ymin, xs, res)
                      ELSE InvAssign(scale.x0, scale.factor, cn[p], ymin, xs, res)]
    /\ cpc' = [cpc EXCEPT ![p] = "advance"]
    /\ UNCHANGED <<interval, mode, scaleVars, foldVars, fn, arg0, cn, cymin>>

\* `ymin += (xmax - xmin) * factor[n]` (in _inverse `ymin = ymax`), then the
\* next n of `range(N - 1)`
ConcAdvance(p) ==
    /\ cpc[p] = "advance"
    /\ LET ymin == cymin[YminSlot(p)]
       IN  cymin' = [cymin EXCEPT ![YminSlot(p)] =
                        IF fn[p] = "forward"
                        THEN FwdYmin(scale.x0, scale.factor, cn[p], ymin)
                        ELSE InvYmax(scale.x0, scale.factor, cn[p], ymin)]
    /\ cn' = [cn EXCEPT ![p] = @ + 1]
    /\ cpc' = [cpc EXCEPT ![p] =
                  IF cn[p] + 1 < Len(scale.x0) - 1 THEN "assign" ELSE "tail"]
    /\ UNCHANGED <<interval, mode, scaleVars, foldVars, fn, arg0, mem>>

\* the assignment after the loop, and `return res`
ConcTail(p) ==
    /\ cpc[p] = "tail"
    /\ LET ymin == cymin[YminSlot(p)]
           xs == mem[ArgId(p)]
           res == mem[ResId(p)]
       IN  mem' = [mem EXCEPT ![ResId(p)] =
                      IF fn[p] = "forward"
                      THEN FwdTail(scale.x0, scale.factor, ymin, xs, res)
                      ELSE InvTail(scale.x0, scale.factor, ymin, xs, res)]
    /\ cpc' = [cpc EXCEPT ![p] = "done"]
    /\ UNCHANGED <<interval, mode, scaleVars, foldVars, fn, arg0, cn, cymin>>

NextConc ==
    \E p \in Procs :
        ConcStart(p) \/ ConcAssign(p) \/ ConcAdvance(p) \/ ConcTail(p)

SpecConc == InitConc /\ [][NextConc]_vars

(***************************************************************************)
(* Claims about create_scale and the transform.                            *)
(***************************************************************************)
\* C1: create_scale fails with the unsorted-or-overlapping error, and returns
\* no scale, for every interval list that is not strictly increasing and
\* non-overlapping (some low >= high, or some low <= the previous high).
\* Stated on the lists whose factors are all positive, where no other error
\* competes with it.
C1_UnsortedRejected ==
    (scale.status # "none" /\ FactorsPositive(interval)
                           /\ ~BoundsValid(interval))
        => (scale.status = "unsorted" /\ scale.kind = "none")

\* C2: create_scale fails with the non-positive-factor error, returning no
\* scale, for every list with strictly increasing non-overlapping bounds and
\* some factor <= 0, and never raises that error when every factor is > 0.
C2_FactorError ==
    scale.status # "none" =>
        /\ (BoundsValid(interval) /\ ~FactorsPositive(interval))
              => (scale.status = "factor" /\ scale.kind = "none")
        /\ FactorsPositive(interval) => scale.status # "factor"

\* a two-interval list with valid bounds whose last factor is exactly 0 was
\* rejected with the factor error
C2_Witness ==
    /\ Len(interval) = 2
    /\ BoundsValid(interval)
    /\ interval[2][3] = Zero
    /\ scale.status = "factor"

\* C3 as stated: for every valid interval list and every x,
\* inverse(forward(x)) = x.
C3_RoundTripAnyValidList ==
    (ValidList(interval) /\ z.exc # "notcalled")
        => (z.exc = "none" /\ z.val = x)

\* C3 amended: for every valid interval list of at least one interval and
\* every x, inverse(forward(x)) = x.
C3_RoundTrip ==
    (ValidList(interval) /\ Len(interval) >= 1 /\ z.exc # "notcalled")
        => (z.exc = "none" /\ z.val = x)

\* the round trip ran on two intervals, from a point strictly inside the
\* second folded interval and a point above the last high
C3_Witness ==
    /\ ValidList(interval)
    /\ Len(interval) = 2
    /\ z.exc = "none"
    /\ RLt(interval[2][1], x[1]) /\ RLt(x[1], interval[2][2])
    /\ RLt(interval[2][2], x[2])
    /\ y.val # x

\* C4 as stated: for every valid interval list and every pair x1 < x2,
\* forward(x1) < forward(x2).
C4_MonotoneAnyValidList ==
    (ValidList(interval) /\ y.exc # "notcalled" /\ RLt(x[1], x[2]))
        => (y.exc = "none" /\ RLt(y.val[1], y.val[2]))

\* C4 amended: for every valid interval list of at least one interval and
\* every pair x1 < x2, forward(x1) < forward(x2).
C4_Monotone ==
    (ValidList(interval) /\ Len(interval) >= 1 /\ y.exc # "notcalled")
        => /\ y.exc = "none"
           /\ RLt(x[1], x[2]) => RLt(y.val[1], y.val[2])
           /\ RLt(x[2], x[1]) => RLt(y.val[2], y.val[1])

\* forward mapped a point inside the first folded interval and a larger
\* point inside the gap between the two intervals
C4_Witness ==
    /\ ValidList(interval)
    /\ Len(interval) = 2
    /\ y.exc = "none"
    /\ RLt(interval[1][1], x[1]) /\ RLt(x[1], interval[1][2])
    /\ RLt(interval[1][2], x[2]) /\ RLt(x[2], interval[2][1])

\* C5: for every valid list of k >= 1 intervals and every x, forward(x) is
\* the reference piecewise function over the boundary table (identity up to
\* the first low, segment n on (x0[n], x0[n+1]], unit slope above the last
\* high), so two points above the last high keep their distance.
C5_ForwardIsReference ==
    (ValidList(interval) /\ Len(interval) >= 1 /\ y.exc # "notcalled")
        => /\ y.exc = "none"
           /\ \A i \in DOMAIN x : y.val[i] = RefForward(interval, x[i])
           /\ (RLt(LastHigh(interval), x[1]) /\ RLt(LastHigh(interval), x[2]))
                 => RSub(y.val[2], y.val[1]) = RSub(x[2], x[1])

\* forward mapped a point lying exactly on the low of the second interval
\* and a point above the last high
C5_Witness ==
    /\ ValidList(interval)
    /\ Len(interval) = 2
    /\ y.exc = "none"
    /\ x[1] = interval[2][1]
    /\ RLt(LastHigh(interval), x[2])

(***************************************************************************)
(* Claims about fold_axis and scale_axis.                                  *)
(***************************************************************************)
\* C6: fold_axis with an empty interval list is a no-op: it returns at once,
\* raises nothing, installs no scale on either axis and draws no fold line
\* or rectangle, whatever axis, which and mode are; the Axes is as before.
C6_EmptyIsNoOp ==
    (entry = "fold_axis" /\ Len(interval) = 0)
        => /\ pc \in {"fold_axis", "returned"}
           /\ err = "none"
           /\ ax = FreshAxes
           /\ requests = <<>>

\* fold_axis returned from a call with an empty list, axis y, mode log
C6_Witness ==
    /\ entry = "fold_axis"
    /\ Len(interval) = 0
    /\ axis = "y"
    /\ mode = "log"
    /\ which = "both"
    /\ pc = "returned"

\* C7: whenever fold_axis or scale_axis is called with an interval list that
\* validation rejects (an ordering or overlap violation, or a factor <= 0,
\* at any position), the error reaches the caller before any effect on the
\* Axes: no scale installed, no fold line or rectangle drawn.
C7_RejectedListHasNoEffect ==
    ~ValidList(interval)
        => /\ pc # "returned"
           /\ ax = FreshAxes
           /\ requests = <<>>

\* What the code does guarantee: an error that reaches the caller reaches it
\* before any effect on the Axes.
RaisedBeforeAnyEffect ==
    pc = "raised" => (err # "none" /\ ax = FreshAxes /\ requests = <<>>)

\* C8: the fold lines and cover rectangles fold_axis requests from
\* add_fold_line are drawn with the lw, d, color, span_color and size the
\* caller passed to fold_axis.
C8_CosmeticsReachTheMarkers ==
    /\ \A j \in 1..Len(requests) : requests[j].style = style
    /\ \A j \in 1..Len(ax.lines) :
          /\ ax.lines[j].mew = style.lw
          /\ ax.lines[j].d = style.d
          /\ ax.lines[j].size = style.size
          /\ ax.lines[j].color = style.color
    /\ \A j \in 1..Len(ax.patches) :
          ax.patches[j].zorder = Rat(26, 10)
              => ax.patches[j].color = style.span_color

\* C9: for a valid list of k >= 1 intervals, fold_axis first validates and
\* builds the transform, then installs the scale exactly once, on the
\* selected axis only, then makes exactly k marker requests, one per
\* interval in list order with the interval's raw bounds and the caller's
\* axis and which; no request precedes the installation; both returned
\* lists have k entries, entry j belonging to interval j.
C9_OrderOfSteps ==
    (entry = "fold_axis" /\ ValidList(interval) /\ Len(interval) >= 1)
        => /\ pc # "raised"
           /\ pc \in {"fold_axis", "scale_axis"}
                 => (ax = FreshAxes /\ requests = <<>>)
           /\ pc \in {"loop", "returned"}
                 => /\ ax.set_calls = <<axis>>
                    /\ (IF axis = "x" THEN ax.xscale ELSE ax.yscale).kind
                           = ScaleKind(mode)
                    /\ (IF axis = "x" THEN ax.yscale ELSE ax.xscale)
                           = LinearScale
           /\ Len(requests) <= Len(interval)
           /\ \A j \in 1..Len(requests) :
                 /\ requests[j].lim = <<interval[j][1], interval[j][2]>>
                 /\ requests[j].axis = axis
                 /\ requests[j].which = which
           /\ pc = "returned"
                 => /\ Len(requests) = Len(interval)
                    /\ ret.kind = "tuple"
                    /\ Len(ret.lines) = Len(interval)
                    /\ Len(ret.rectangles) = Len(interval)
                    /\ \A j \in 1..Len(interval) :
                          /\ ret.lines[j] # <<>>
                          /\ \A n \in 1..Len(ret.lines[j]) :
                                ret.lines[j][n].lim = requests[j].lim
                          /\ ret.rectangles[j] # <<>>
                          /\ \A n \in 1..Len(ret.rectangles[j]) :
                                ret.rectangles[j][n].lim = requests[j].lim

\* fold_axis returned from a call with two valid intervals on the y axis
C9_Witness ==
    /\ entry = "fold_axis"
    /\ ValidList(interval)
    /\ Len(interval) = 2
    /\ axis = "y"
    /\ which = "upper"
    /\ pc = "returned"
    /\ Len(ax.lines) = 2

(***************************************************************************)
(* Claims about concurrent use of a transform.                             *)
(***************************************************************************)
\* the result invocation p returns when it runs alone
Alone(p) ==
    IF fn[p] = "forward" THEN forward(scale, arg0[p]) ELSE inverse(scale, arg0[p])

\* C10: no call of forward or inverse modifies the tables x0 and factor or
\* the caller's array, and under every interleaving of the statements of
\* concurrent invocations each invocation returns the result it returns
\* when run alone, so equal calls return equal results.
C10_ConcurrentCallsAreIndependent ==
    /\ scale = create_scale(interval, mode)
    /\ \A p \in Procs :
          /\ mem[ArgId(p)] = arg0[p]
          /\ cpc[p] = "done" => Returned(mem[<<"res", p>>]) = Alone(p)
          /\ cpc[p] = "IndexError" => Alone(p) = IndexError
    /\ \A p, q \in Procs :
          (cpc[p] = "done" /\ cpc[q] = "done" /\ fn[p] = fn[q]
             /\ arg0[p] = arg0[q])
              => mem[<<"res", p>>] = mem[<<"res", q>>]

\* both invocations returned, one of forward and one of inverse, on a
\* transform of two intervals, each having changed its input
C10_Witness ==
    /\ Len(interval) = 2
    /\ cpc["p1"] = "done" /\ cpc["p2"] = "done"
    /\ fn["p1"] = "forward" /\ fn["p2"] = "inverse"
    /\ mem[<<"res", "p1">>] # arg0["p1"]
    /\ mem[<<"res", "p2">>] # arg0["p2"]

====
